---- MODULE Spec2Model ----
(***************************************************************************)
(* A model of sqlite_exporter.py (class SQLiteExporter): the timestamp     *)
(* classifier convert_timestamp, the schema prober                         *)
(* detect_timestamp_columns, the per-table export export_table_to_csv with *)
(* its open ladder and its cleanup, and the drivers export_database and    *)
(* export_folder.  The sqlite3 library, the file system and the logger are *)
(* the environment: their outcomes are chosen nondeterministically among   *)
(* the results and exceptions the calls can produce.                       *)
(***************************************************************************)
EXTENDS Integers, Sequences, FiniteSets, TLC

(***************************************************************************)
(* Bounds of the model.                                                    *)
(***************************************************************************)
\* sampled numeric values lie within MaxDelta of a threshold of the classifier
MaxDelta == 1
\* rows of the largest sample table
MaxRows == 3
\* the row limits tried are None and 1..MaxLimit
MaxLimit == 2
\* databases handed to export_folder in one run
MaxDbs == 2
\* rows one fetchmany call returns; 1000 in the source (line 248), scaled down so
\* that a table spans several batches
chunk_size == 2

(***************************************************************************)
(* Numbers.  SQLite integers and Python floats exceed the integers TLC     *)
(* computes with, so a number is a sign and two limbs in base 10^9:        *)
(* value = (-1)^neg * (hi * 10^9 + lo).  The model covers |value| < 2^31 * *)
(* 10^9, about 2.1e18, which is below 2^63.                                *)
(***************************************************************************)
G == 1000 * 1000 * 1000

Num(neg, hi, lo) == [neg |-> neg /\ (hi # 0 \/ lo # 0), hi |-> hi, lo |-> lo]

MagLess(a, b) == a.hi < b.hi \/ (a.hi = b.hi /\ a.lo < b.lo)

\* a < b on signed numbers
Less(a, b) ==
    IF a.neg /\ ~b.neg THEN TRUE
    ELSE IF ~a.neg /\ b.neg THEN FALSE
    ELSE IF a.neg THEN MagLess(b, a)
    ELSE MagLess(a, b)

Leq(a, b) == ~Less(b, a)

\* a + d for a magnitude a and a small integer d (|d| < 10^9), a + d >= 0
AddSmall(a, d) ==
    LET s == a.lo + d
    IN  IF s >= G THEN Num(a.neg, a.hi + 1, s - G)
        ELSE IF s < 0 THEN Num(a.neg, a.hi - 1, s + G)
        ELSE Num(a.neg, a.hi, s)

\* a mod m for a magnitude a and 0 < m <= 512
ModSmall(a, m) == (((a.hi % m) * (G % m)) + a.lo) % m

\* 10 * a + d for a magnitude a and a digit d
MulTenAdd(a, d) ==
    LET tenth == G \div 10
    IN  Num(a.neg, (a.hi * 10) + (a.lo \div tenth), ((a.lo % tenth) * 10) + d)

Negate(a) == Num(~a.neg, a.hi, a.lo)

(***************************************************************************)
(* float(): Python floats are IEEE doubles.  An integer below 2^53 is      *)
(* represented exactly; from 2^k on (k >= 53) it is rounded to the nearest *)
(* multiple of 2^(k-52), ties to the even multiple.                        *)
(***************************************************************************)
Pow2_53 == Num(FALSE, 9007199, 254740992)
Pow2_54 == Num(FALSE, 18014398, 509481984)
Pow2_55 == Num(FALSE, 36028797, 18963968)
Pow2_56 == Num(FALSE, 72057594, 37927936)
Pow2_57 == Num(FALSE, 144115188, 75855872)
Pow2_58 == Num(FALSE, 288230376, 151711744)
Pow2_59 == Num(FALSE, 576460752, 303423488)
Pow2_60 == Num(FALSE, 1152921504, 606846976)

Ulp(a) ==
    IF MagLess(a, Pow2_53) THEN 1
    ELSE IF MagLess(a, Pow2_54) THEN 2
    ELSE IF MagLess(a, Pow2_55) THEN 4
    ELSE IF MagLess(a, Pow2_56) THEN 8
    ELSE IF MagLess(a, Pow2_57) THEN 16
    ELSE IF MagLess(a, Pow2_58) THEN 32
    ELSE IF MagLess(a, Pow2_59) THEN 64
    ELSE IF MagLess(a, Pow2_60) THEN 128
    ELSE 256

\* a rounded, given its remainders r modulo the spacing u and r2 modulo 2u
RoundRemainder(a, u, r, r2) ==
    IF r = 0 THEN a
    ELSE IF 2 * r < u \/ (2 * r = u /\ r2 = r) THEN AddSmall(a, 0 - r)
    ELSE AddSmall(a, u - r)

RoundSpacing(a, u) == RoundRemainder(a, u, ModSmall(a, u), ModSmall(a, 2 * u))

RoundToDouble(a) == RoundSpacing(a, Ulp(a))

(***************************************************************************)
(* Cell values: what sqlite3 hands back for a cell (None, int, str, and    *)
(* bytes for a BLOB) and what a caller may pass to convert_timestamp.      *)
(* Text and bytes are sequences of one-character strings.                  *)
(***************************************************************************)
NoneVal == [k |-> "None"]
IntCell(n) == [k |-> "int", n |-> n]
TextCell(s) == [k |-> "str", s |-> s]
BlobCell(s) == [k |-> "bytes", s |-> s]

Digits == {"0", "1", "2", "3", "4", "5", "6", "7", "8", "9"}
DigitVal(c) ==
    CASE c = "0" -> 0 [] c = "1" -> 1 [] c = "2" -> 2 [] c = "3" -> 3
      [] c = "4" -> 4 [] c = "5" -> 5 [] c = "6" -> 6 [] c = "7" -> 7
      [] c = "8" -> 8 [] c = "9" -> 9

RECURSIVE DigitsValue(_, _)
DigitsValue(s, acc) ==
    IF s = <<>> THEN acc ELSE DigitsValue(Tail(s), MulTenAdd(acc, DigitVal(Head(s))))

Fin(n) == [k |-> "fin", n |-> n]
Inf(neg) == [k |-> "inf", neg |-> neg]
NaN == [k |-> "nan"]
Raise(e) == [exc |-> e]
Value(v) == [exc |-> "none", v |-> v]

Signed(neg, r) == Value(Fin(Num(neg, r.hi, r.lo)))

\* float(str): the literals the model samples are nan, inf, and decimal integers
\* with an optional sign; any other text is not a number
ParseUnsigned(neg, body) ==
    IF body = <<"n", "a", "n">> THEN Value(NaN)
    ELSE IF body = <<"i", "n", "f">> THEN Value(Inf(neg))
    ELSE IF body # <<>> /\ \A i \in DOMAIN body : body[i] \in Digits
         THEN Signed(neg, RoundToDouble(DigitsValue(body, Num(FALSE, 0, 0))))
    ELSE Raise("ValueError")

ParseFloat(s) ==
    IF s # <<>> /\ Head(s) = "-" THEN ParseUnsigned(TRUE, Tail(s)) ELSE ParseUnsigned(FALSE, s)

\* float(timestamp), line 124
Float(x) ==
    CASE x.k = "int" -> Signed(x.n.neg, RoundToDouble(Num(FALSE, x.n.hi, x.n.lo)))
      [] x.k \in {"str", "bytes"} -> ParseFloat(x.s)
      [] OTHER -> Raise("TypeError")

\* f > c for a float f and a finite constant c; every comparison with nan is false
FloatGreater(f, c) ==
    CASE f.k = "fin" -> Less(c, f.n)
      [] f.k = "inf" -> ~f.neg
      [] OTHER -> FALSE

(***************************************************************************)
(* Calendar dates.  A datetime is kept as its epoch, its unit and the      *)
(* count of units since the epoch; datetime covers the years 1 to 9999.    *)
(* The ranges are the counts for which the date lies in those years (the   *)
(* local zone is UTC).                                                     *)
(***************************************************************************)
timestamp_patterns ==
    [webkit_epoch |-> "1601-01-01", unix_epoch |-> "1970-01-01", apple_cocoa |-> "2001-01-01"]

Datetime(epoch, unit, n) == [k |-> "datetime", epoch |-> epoch, unit |-> unit, n |-> n]

DateRange(epoch, unit) ==
    CASE epoch = "1601-01-01" /\ unit = "microseconds" ->
           [min |-> Num(TRUE, 50491123, 200000000), max |-> Num(FALSE, 265046774, 399999999)]
      [] epoch = "2001-01-01" /\ unit = "seconds" ->
           [min |-> Num(TRUE, 63, 113904000), max |-> Num(FALSE, 252, 423993599)]
      [] epoch = "1970-01-01" /\ unit = "seconds" ->
           [min |-> Num(TRUE, 62, 135596799), max |-> Num(FALSE, 253, 402300799)]
      [] epoch = "1970-01-01" /\ unit = "milliseconds" ->
           [min |-> Num(TRUE, 62135, 596799999), max |-> Num(FALSE, 253402, 300799999)]

Within(range, n) == Leq(range.min, n) /\ Leq(n, range.max)
InRange(epoch, unit, n) == Within(DateRange(epoch, unit), n)

\* base_date + timedelta(<unit>=ts_value): an infinite count and a date outside
\* the years 1..9999 raise OverflowError, nan raises ValueError
AddTimedelta(epoch, unit, f) ==
    CASE f.k = "nan" -> Raise("ValueError")
      [] f.k = "inf" -> Raise("OverflowError")
      [] OTHER -> IF InRange(epoch, unit, f.n) THEN Value(Datetime(epoch, unit, f.n))
                  ELSE Raise("OverflowError")

\* datetime.fromtimestamp(x): a year outside 1..9999 and nan raise ValueError,
\* an infinite x raises OverflowError
FromTimestamp(unit, f) ==
    CASE f.k = "nan" -> Raise("ValueError")
      [] f.k = "inf" -> Raise("OverflowError")
      [] OTHER -> IF InRange("1970-01-01", unit, f.n)
                  THEN Value(Datetime("1970-01-01", unit, f.n))
                  ELSE Raise("ValueError")

(***************************************************************************)
(* convert_timestamp(timestamp, timestamp_type), lines 117-166.  The       *)
(* result is [exc, converted, ts_type]: exc is "none" when the call        *)
(* returns the pair (converted, ts_type), and the exception otherwise.     *)
(***************************************************************************)
T1e18 == Num(FALSE, G, 0)
T1e10 == Num(FALSE, 10, 0)
T1e9 == Num(FALSE, 1, 0)
T1e8 == Num(FALSE, 0, G \div 10)

Returns(converted, ts_type) == [exc |-> "none", converted |-> converted, ts_type |-> ts_type]
Raises(e) == [exc |-> e, converted |-> NoneVal, ts_type |-> "unknown"]

\* the branch the value range selects, lines 128-143
AutoType(ts_value) ==
    IF FloatGreater(ts_value, T1e18) THEN "webkit"
    ELSE IF FloatGreater(ts_value, T1e10) THEN "unix_ms"
    ELSE IF FloatGreater(ts_value, T1e9) THEN "unix"
    ELSE IF FloatGreater(ts_value, T1e8) THEN "cocoa"
    ELSE "unknown"

Tagged(date, ts_type) == date @@ [ts_type |-> ts_type]

\* the date each branch builds, lines 129-141 and again 146-159: [exc, v, ts_type]
DateOf(ts_value, branch) ==
    CASE branch = "webkit" ->
           Tagged(AddTimedelta(timestamp_patterns.webkit_epoch, "microseconds", ts_value), "webkit")
      [] branch = "unix_ms" -> Tagged(FromTimestamp("milliseconds", ts_value), "unix_ms")
      [] branch = "unix" -> Tagged(FromTimestamp("seconds", ts_value), "unix")
      [] branch = "cocoa" ->
           Tagged(AddTimedelta(timestamp_patterns.apple_cocoa, "seconds", ts_value), "cocoa")
      [] OTHER -> Tagged(Value(NoneVal), "unknown")

\* a manual mode that still goes by the magnitude of the value
BuildDateByMagnitude(ts_value, timestamp_type) == DateOf(ts_value, AutoType(ts_value))

\* lines 126-161
BuildDate(ts_value, timestamp_type) ==
    DateOf(ts_value, IF timestamp_type = "auto" THEN AutoType(ts_value) ELSE timestamp_type)

\* except (ValueError, TypeError, OSError), line 165
CaughtByConvert == {"ValueError", "TypeError", "OSError"}

\* line 163, and lines 165-166 for an exception exc
Outcome(d) ==
    IF d.exc = "none" THEN Returns(d.v, d.ts_type)
    ELSE IF d.exc \in CaughtByConvert THEN Returns(NoneVal, "unknown")
    ELSE Raises(d.exc)

TryConvert(ts, timestamp_type) ==
    IF ts.exc = "none" THEN Outcome(BuildDate(ts.v, timestamp_type)) ELSE Outcome(ts)

convert_timestamp(timestamp, timestamp_type) ==
    IF timestamp = NoneVal THEN Returns(NoneVal, "unknown")
    ELSE TryConvert(Float(timestamp), timestamp_type)

(***************************************************************************)
(* The values the model samples: integers around every threshold of the    *)
(* classifier and around the ends of the calendar, typical timestamps of   *)
(* each convention, their negatives, and text.                             *)
(***************************************************************************)
Deltas == (0 - MaxDelta) .. MaxDelta

Landmarks ==
    { T1e8, T1e9, T1e10, T1e18,
      DateRange("1970-01-01", "milliseconds").max,
      DateRange("1601-01-01", "microseconds").max }

SampleNums ==
    LET pos == { AddSmall(t, d) : t \in Landmarks, d \in Deltas }
                \cup { Num(FALSE, 0, 0), Num(FALSE, 0, 5),
                       Num(FALSE, 0, 700000000),           \* cocoa seconds, 2023
                       Num(FALSE, 1, 609459200),           \* unix seconds, 2021
                       Num(FALSE, 1609, 459200000),        \* unix milliseconds, 2021
                       Num(FALSE, 13253932, 800000000),    \* webkit microseconds, 2021
                       Num(FALSE, G, 64), Num(FALSE, G, 65),
                       Num(FALSE, 2 * G, 0) }
    IN  pos \cup { Negate(n) : n \in pos }

SampleTexts ==
    { <<"a", "b", "c">>, <<>>, <<"n", "a", "n">>, <<"i", "n", "f">>, <<"-", "i", "n", "f">>,
      <<"1", "6", "0", "9", "4", "5", "9", "2", "0", "0">>,
      <<"2", "0", "0", "0", "0", "0", "0", "0", "0", "0", "0", "0", "0", "0", "0", "0", "0", "0", "0">> }

SampleValues ==
    {NoneVal} \cup { IntCell(n) : n \in SampleNums }
        \cup { TextCell(s) : s \in SampleTexts } \cup { BlobCell(<<"a", "b", "c">>) }

TimestampTypes == {"auto", "webkit", "unix", "unix_ms", "cocoa", "filetime"}

(***************************************************************************)
(* Names are sequences of one-character strings.                           *)
(***************************************************************************)
UpperCase == <<"A", "B", "C", "D", "E", "F", "G", "H", "I", "J", "K", "L", "M",
               "N", "O", "P", "Q", "R", "S", "T", "U", "V", "W", "X", "Y", "Z">>
LowerCase == <<"a", "b", "c", "d", "e", "f", "g", "h", "i", "j", "k", "l", "m",
               "n", "o", "p", "q", "r", "s", "t", "u", "v", "w", "x", "y", "z">>

\* str.lower(), line 181
LowerChar(c) ==
    IF \E i \in DOMAIN UpperCase : UpperCase[i] = c
    THEN LowerCase[CHOOSE i \in DOMAIN UpperCase : UpperCase[i] = c]
    ELSE c
Lower(s) == [i \in DOMAIN s |-> LowerChar(s[i])]

\* pattern in col_name, line 182
Contains(s, pat) ==
    \E i \in 0 .. (Len(s) - Len(pat)) : SubSeq(s, i + 1, i + Len(pat)) = pat

\* a filter that lets everything through
FilterNothing(s, keep) == s

RECURSIVE Filter(_, _)
\* the elements of the sequence s that are in the set keep, in the order of s
Filter(s, keep) ==
    IF s = <<>> THEN <<>>
    ELSE (IF Head(s) \in keep THEN <<Head(s)>> ELSE <<>>) \o Filter(Tail(s), keep)

Range(s) == { s[i] : i \in DOMAIN s }

\* the characters re's \w matches among those the model uses, with - _ . (lines 324-325)
WordChars == Range(UpperCase) \cup Range(LowerCase) \cup Digits \cup {"_"}
SafeChars == WordChars \cup {"-", "_", "."}

\* re.sub(r'[^\w\-_.]', '_', name)
Sanitize(name) == [i \in DOMAIN name |-> IF name[i] \in SafeChars THEN name[i] ELSE "_"]

\* f"{safe_db_name}_{safe_table_name}.csv" under output_dir, lines 324-327
OutputPath(db_name, table_name) ==
    Sanitize(db_name) \o <<"_">> \o Sanitize(table_name) \o <<".", "c", "s", "v">>

(***************************************************************************)
(* detect_timestamp_columns, lines 168-188.  table_info is the outcome of  *)
(* the PRAGMA: [exc, v] with v the table's column names in order.          *)
(***************************************************************************)
timestamp_keywords ==
    { <<"t", "i", "m", "e">>,
      <<"d", "a", "t", "e">>,
      <<"s", "t", "a", "m", "p">>,
      <<"c", "r", "e", "a", "t", "e", "d">>,
      <<"m", "o", "d", "i", "f", "i", "e", "d">>,
      <<"a", "c", "c", "e", "s", "s", "e", "d">>,
      <<"l", "a", "s", "t">>,
      <<"e", "p", "o", "c", "h">>,
      <<"v", "i", "s", "i", "t">> }

IsTimestampName(col) == \E pattern \in timestamp_keywords : Contains(Lower(col), pattern)

\* a detection that finds no column
detect_no_columns(table_info) == <<>>

detect_timestamp_columns(table_info) ==
    IF table_info.exc # "none" THEN <<>>
    ELSE Filter(table_info.v, { c \in Range(table_info.v) : IsTimestampName(c) })

(***************************************************************************)
(* The names the samples use.                                              *)
(***************************************************************************)
S_events == <<"e", "v", "e", "n", "t", "s">>
S_id == <<"i", "d">>
S_created_at == <<"c", "r", "e", "a", "t", "e", "d", "_", "a", "t">>
S_visits == <<"v", "i", "s", "i", "t", "s">>
S_LastVisit == <<"L", "a", "s", "t", "V", "i", "s", "i", "t">>
S_people == <<"p", "e", "o", "p", "l", "e">>
S_name == <<"n", "a", "m", "e">>
S_my_t == <<"m", "y", " ", "t">>
S_log == <<"l", "o", "g">>
S_stamp == <<"s", "t", "a", "m", "p">>
S_app == <<"a", "p", "p">>
S_my__db == <<"m", "y", "_", "d", "b">>
S_my_db == <<"m", "y", " ", "d", "b">>
S_none == <<"n", "o", "n", "e">>
S_hist == <<"h", "i", "s", "t">>
S_a_b == <<"a", "#", "b">>
S_zero == <<"z", "e", "r", "o">>
S_short == <<"s", "h", "o", "r", "t">>
S_text == <<"t", "e", "x", "t">>
S_dir == <<"d", "i", "r">>
S_missing == <<"m", "i", "s", "s", "i", "n", "g">>
S_nosuch == <<"n", "o", "s", "u", "c", "h">>

(***************************************************************************)
(* Sample tables: [name, columns, rows].  A row is a sequence of cells in  *)
(* column order.                                                           *)
(***************************************************************************)
SmallInt(n) == IntCell(Num(FALSE, 0, n))

\* events(id, created_at): MaxRows rows of unix seconds
events ==
    [name |-> S_events, columns |-> <<S_id, S_created_at>>,
     rows |-> [i \in 1 .. MaxRows |-> <<SmallInt(i), IntCell(Num(FALSE, 1, 609459200 + i))>>]]

\* visits(id, LastVisit): the second row holds 2e18
visits ==
    [name |-> S_visits, columns |-> <<S_id, S_LastVisit>>,
     rows |-> << <<SmallInt(1), IntCell(Num(FALSE, 1609, 459200000))>>,
                 <<SmallInt(2), IntCell(Num(FALSE, 2 * G, 0))>>,
                 <<SmallInt(3), IntCell(Num(FALSE, 13253932, 800000000))>> >>]

\* people(id, name): no column name matches a keyword
people ==
    [name |-> S_people, columns |-> <<S_id, S_name>>,
     rows |-> << <<SmallInt(1), TextCell(<<"a", "b", "c">>)>>, <<SmallInt(2), NoneVal>> >>]

\* "my t"(id): the name is not an SQL identifier
my_t ==
    [name |-> S_my_t, columns |-> <<S_id>>, rows |-> << <<SmallInt(1)>> >>]

\* log(stamp, id, created_at): two columns match a keyword; no rows
log_table ==
    [name |-> S_log, columns |-> <<S_stamp, S_id, S_created_at>>, rows |-> <<>>]

TableNames(tables) == [i \in DOMAIN tables |-> tables[i].name]
HasTable(tables, name) == \E i \in DOMAIN tables : tables[i].name = name
TableNamed(tables, name) == tables[CHOOSE i \in DOMAIN tables : tables[i].name = name]

\* the statements are built by f-strings that do not quote the name (lines 171,
\* 224, 236): a name that is not an identifier makes them a syntax error
NeedsQuoting(name) == name = <<>> \/ \E i \in DOMAIN name : name[i] \notin WordChars

(***************************************************************************)
(* Sample files: [stem, isfile, size, header, readable, env, tables].      *)
(* env is the condition of a database file during the run:                 *)
(*   healthy        every call succeeds                                    *)
(*   locked         another process holds the exclusive lock for the whole *)
(*                  run; the file can be copied                            *)
(*   locked_nocopy  locked, and shutil.copy2 fails                         *)
(*   locked_notmp   locked, and tempfile.mkdtemp fails                     *)
(*   unopenable     sqlite3.connect fails in both modes                    *)
(*   nouri          the read-only URI cannot be opened (the path holds a   *)
(*                  character the URI syntax reserves), the path can       *)
(*   corrupt        the header is right, every statement fails             *)
(*   damaged        the schema can be read, a page of the table cannot:    *)
(*                  the row query fails                                    *)
(***************************************************************************)
Magic == "SQLite format 3\\0"

Database(stem, env, tables) ==
    [stem |-> stem, isfile |-> TRUE, size |-> 4096, header |-> Magic, readable |-> TRUE,
     env |-> env, tables |-> tables]

NotDatabase(stem, isfile, size, header, readable) ==
    [stem |-> stem, isfile |-> isfile, size |-> size, header |-> header,
     readable |-> readable, env |-> "healthy", tables |-> <<>>]

ValidFiles ==
    { Database(S_app, "healthy", <<events, people>>),
      Database(S_my_db, "healthy", <<visits, my_t, log_table>>),
      Database(S_my__db, "healthy", <<log_table>>),
      Database(S_none, "healthy", <<>>),
      Database(S_hist, "locked", <<events, people>>),
      Database(S_hist, "locked_nocopy", <<events>>),
      Database(S_hist, "locked_notmp", <<events>>),
      Database(S_app, "unopenable", <<events>>),
      Database(S_a_b, "nouri", <<events>>),
      Database(S_app, "corrupt", <<events>>),
      Database(S_app, "damaged", <<events>>) }

InvalidFiles ==
    { NotDatabase(S_zero, TRUE, 0, "", TRUE),
      NotDatabase(S_short, TRUE, 15, "SQLite format 3", TRUE),
      NotDatabase(S_text, TRUE, 4096, "PK", TRUE),
      NotDatabase(S_dir, FALSE, 4096, "", TRUE),
      NotDatabase(S_app, TRUE, 4096, Magic, FALSE) }

Files == ValidFiles \cup InvalidFiles

\* the files a folder holds.  export_database reaches neither the direct open nor
\* the private copy with its own connection (line 309), so one locked file and
\* one file that cannot be opened stand for the others; one file is too short
FolderFiles ==
    { f \in Files : f.env \notin {"locked_nocopy", "locked_notmp", "nouri"} /\ f.size # 0 }

IsLocked(f) == f.env \in {"locked", "locked_nocopy", "locked_notmp"}

(***************************************************************************)
(* The environment: the outcomes of the library calls.  An exception is    *)
(* [type, msg].                                                            *)
(***************************************************************************)
NoExc == [type |-> "none", msg |-> ""]
LockedError == [type |-> "OperationalError", msg |-> "database is locked"]
OpenError == [type |-> "OperationalError", msg |-> "unable to open database file"]
SqlError == [type |-> "OperationalError", msg |-> "syntax error or no such table"]
CorruptError == [type |-> "DatabaseError", msg |-> "file is not a database"]
MalformedError == [type |-> "DatabaseError", msg |-> "database disk image is malformed"]
CopyError == [type |-> "OSError", msg |-> "copy failed"]
OverflowError == [type |-> "OverflowError", msg |-> "date value out of range"]
KeyboardInterrupt == [type |-> "KeyboardInterrupt", msg |-> ""]

\* a test every message passes
MentionsAnything(e) == TRUE

\* "locked" in str(e).lower(), line 206
MentionsLocked(e) == e.msg = "database is locked"

\* sqlite3.connect(f"file:{db_path}?mode=ro", uri=True) and sqlite3.connect(db_path).
\* SQLite takes the lock with the first statement, so a connect to a locked file
\* usually succeeds; the open ladder expects it to fail as well, and both happen.
ConnectOutcomes(f, how) ==
    CASE IsLocked(f) -> {NoExc, LockedError}
      [] f.env = "unopenable" -> {OpenError}
      [] f.env = "nouri" /\ how = "ro" -> {OpenError}
      [] OTHER -> {NoExc}

\* a statement on connection conn about table name; on_missing is what a table
\* that does not exist gives
StatementOutcome(f, conn, name, on_missing) ==
    IF conn.target = "original" /\ IsLocked(f) THEN LockedError
    ELSE IF f.env = "corrupt" THEN CorruptError
    ELSE IF NeedsQuoting(name) THEN SqlError
    ELSE IF ~HasTable(f.tables, name) THEN on_missing
    ELSE NoExc

\* cursor.execute(query), line 240: execute steps the statement to its first row,
\* which reads the pages of the table
QueryOutcome(f, conn, name) ==
    IF StatementOutcome(f, conn, name, SqlError) # NoExc
    THEN StatementOutcome(f, conn, name, SqlError)
    ELSE IF f.env = "damaged" THEN MalformedError
    ELSE NoExc

\* PRAGMA table_info(name): no rows for a table that does not exist
TableInfo(f, conn, name) ==
    LET e == StatementOutcome(f, conn, name, NoExc)
    IN  IF e # NoExc THEN Raise(e.type)
        ELSE IF HasTable(f.tables, name) THEN Value(TableNamed(f.tables, name).columns)
        ELSE Value(<<>>)

\* SELECT name FROM sqlite_master ...
MasterOutcome(f, conn) ==
    IF conn.target = "original" /\ IsLocked(f) THEN LockedError
    ELSE IF f.env = "corrupt" THEN CorruptError
    ELSE NoExc

\* get_table_list, lines 103-115
get_table_list(f, conn) ==
    IF MasterOutcome(f, conn) # NoExc THEN <<>> ELSE TableNames(f.tables)

\* the validity check without the comparison of the header
is_valid_without_header(f) == f.isfile /\ f.size >= 16 /\ f.readable

\* is_valid_sqlite_database, lines 74-90
is_valid_sqlite_database(f) ==
    IF ~f.isfile THEN FALSE
    ELSE IF f.size < 16 THEN FALSE
    ELSE IF ~f.readable THEN FALSE
    ELSE f.header = Magic

(***************************************************************************)
(* The rows of one table export.                                           *)
(***************************************************************************)
Min(a, b) == IF a < b THEN a ELSE b

\* a row limit of None; 0 is as good as None to "if limit:" (lines 237, 273, 276)
NoLimit == 0

\* the rows the cursor yields for f"SELECT * FROM {table_name}" with
\* f" LIMIT {limit}" appended if limit (lines 236-240)
QueryRows(rows, limit) ==
    IF limit # NoLimit THEN SubSeq(rows, 1, Min(limit, Len(rows))) ELSE rows

\* the limit test made before the row is counted
LimitReachedEarly(limit, rows_processed) == limit # NoLimit /\ rows_processed + 1 >= limit

\* limit and rows_processed >= limit, lines 273 and 276
LimitReached(limit, rows_processed) == limit # NoLimit /\ rows_processed >= limit

Suffix(col, suffix) == col \o suffix
S_converted == <<"_", "c", "o", "n", "v", "e", "r", "t", "e", "d">>
S_type == <<"_", "t", "y", "p", "e">>

RECURSIVE ExtraColumns(_, _)
\* lines 228-231
ExtraColumns(timestamp_columns, original_columns) ==
    IF timestamp_columns = <<>> THEN <<>>
    ELSE LET col == Head(timestamp_columns)
         IN  (IF col \in Range(original_columns)
              THEN <<Suffix(col, S_converted), Suffix(col, S_type)>>
              ELSE <<>>)
             \o ExtraColumns(Tail(timestamp_columns), original_columns)

\* original_columns.index(col)
IndexOf(seq, x) == CHOOSE i \in DOMAIN seq : seq[i] = x /\ \A j \in 1 .. (i - 1) : seq[j] # x

TagCell(ts_type) == [k |-> "ts_type", s |-> ts_type]

\* the two cells of one timestamp column, lines 262-268
Converted(c) ==
    IF c.exc # "none" THEN Raise(c.exc) ELSE Value(<<c.converted, TagCell(c.ts_type)>>)

ColumnData(row, col, original_columns) ==
    IF col \in Range(original_columns)
    THEN Converted(convert_timestamp(row[IndexOf(original_columns, col)], "auto"))
    ELSE Value(<<NoneVal, NoneVal>>)

Extend(cells, rest) == IF rest.exc # "none" THEN rest ELSE Value(cells \o rest.v)

RECURSIVE ExtraData(_, _, _)
ExtraDataFrom(first, row, timestamp_columns, original_columns) ==
    IF first.exc # "none" THEN first
    ELSE Extend(first.v, ExtraData(row, timestamp_columns, original_columns))

\* lines 258-268: [exc, v], the exception convert_timestamp raised or the cells
ExtraData(row, timestamp_columns, original_columns) ==
    IF timestamp_columns = <<>> THEN Value(<<>>)
    ELSE ExtraDataFrom(ColumnData(row, Head(timestamp_columns), original_columns),
                       row, Tail(timestamp_columns), original_columns)

Processed(written, rows_processed, exc) ==
    [written |-> written, rows_processed |-> rows_processed, exc |-> exc]

RECURSIVE ProcessRows(_, _, _, _, _, _)
\* one row, lines 257-274, and the rows after it
ProcessRow(extra, rows, written, rows_processed, limit, timestamp_columns, original_columns) ==
    IF extra.exc # "none" THEN Processed(written, rows_processed, extra.exc)
    ELSE IF LimitReached(limit, rows_processed + 1)
    THEN Processed(Append(written, Head(rows) \o extra.v), rows_processed + 1, "none")
    ELSE ProcessRows(Tail(rows), Append(written, Head(rows) \o extra.v),
                     rows_processed + 1, limit, timestamp_columns, original_columns)

\* the for loop over one batch, lines 256-274: [written, rows_processed, exc]
ProcessRows(rows, written, rows_processed, limit, timestamp_columns, original_columns) ==
    IF rows = <<>> THEN Processed(written, rows_processed, "none")
    ELSE ProcessRow(ExtraData(Head(rows), timestamp_columns, original_columns),
                    rows, written, rows_processed, limit, timestamp_columns, original_columns)

(***************************************************************************)
(* The state.                                                              *)
(***************************************************************************)
VARIABLES
    mode,       \* the method the run calls: convert_timestamp, export_table_to_csv, export_folder
    arg,        \* its arguments
    pc,         \* the statement the run is at
    conv,       \* what convert_timestamp gave: [exc, converted, ts_type]
    stats,      \* self.stats, lines 51-56
    log,        \* the records the logger got, counted by level
    out,        \* the files under output_dir: path -> [header, rows]
    tempdirs,   \* the temporary directories on disk
    conns,      \* the sqlite3 connections that are open
    fi,         \* export_folder: the files dispatched so far
    d,          \* the locals of export_database
    t,          \* the locals of export_table_to_csv
    h           \* history: what the calls in progress found when they started

vars == <<mode, arg, pc, conv, stats, log, out, tempdirs, conns, fi, d, t, h>>

NoConn == [target |-> "none", via |-> "none"]
NoFile == NotDatabase(<<>>, FALSE, 0, "", FALSE)
NoColumns == [given |-> FALSE, cols |-> <<>>]

\* export_table_to_csv's locals at its first statement, lines 190-193
TableCall(db, table_name, output_path, limit, timestamp_columns) ==
    [db |-> db, table_name |-> table_name, output_path |-> output_path, limit |-> limit,
     timestamp_columns |-> timestamp_columns,
     conn |-> NoConn, temp_db_path |-> FALSE, temp_dir |-> 0, made |-> 0, probed |-> FALSE, queried |-> FALSE,
     steps |-> <<>>,
     e |-> NoExc, exc |-> NoExc,
     original_columns |-> <<>>, all_columns |-> <<>>, cursor |-> <<>>,
     rows_processed |-> 0, ret |-> [success |-> FALSE, row_count |-> 0]]

\* export_database's locals at its first statement
DatabaseCall(db) ==
    [db |-> db, conn |-> NoConn, exc |-> NoExc, all_tables |-> <<>>,
     tables_to_export |-> <<>>, k |-> 0]

\* a table exported: the database, the table, and the file that holds it
Export(db, table_name, output_path) == [db |-> db, table |-> table_name, path |-> output_path]

\* what a call of export_table_to_csv found when it started
TableEntry(hh) == [hh EXCEPT !.t_tempdirs = tempdirs, !.t_out = out, !.t_stats = stats]

History0 ==
    [d_stats |-> stats, d_out |-> <<>>, d_log |-> log, d_opened |-> 0, attempted |-> <<>>,
     outcome |-> "none", enumerated |-> FALSE, written |-> <<>>,
     t_tempdirs |-> {}, t_out |-> <<>>, t_stats |-> stats]

Limits == 0 .. MaxLimit

\* the timestamp_columns a caller of export_table_to_csv passes
Overrides ==
    { NoColumns,
      [given |-> TRUE, cols |-> <<S_created_at>>],
      [given |-> TRUE, cols |-> <<>>],
      [given |-> TRUE, cols |-> <<S_missing, S_id>>] }

\* the tables a caller of export_folder passes; the empty set is None
TableFilters == { {}, {S_events, S_log}, {S_nosuch} }

RECURSIVE SeqsUpTo(_, _)
SeqsUpTo(S, n) ==
    IF n = 0 THEN {<<>>}
    ELSE LET shorter == SeqsUpTo(S, n - 1)
         IN  shorter \cup { Append(q, x) : q \in shorter, x \in S }

NoArg ==
    [timestamp |-> NoneVal, timestamp_type |-> "auto", files |-> <<>>, tables |-> {},
     limit |-> NoLimit]

Init ==
    /\ stats = [databases_processed |-> 0, tables_exported |-> 0, files_skipped |-> 0, errors |-> 0]
    /\ log = [info |-> 0, warning |-> 0, error |-> 0]
    /\ out = <<>>
    /\ tempdirs = {}
    /\ conns = 0
    /\ fi = 0
    /\ conv = Returns(NoneVal, "unknown")
    /\ d = DatabaseCall(NoFile)
    /\ h = History0
    /\ \/ /\ mode = "convert_timestamp"
          /\ \E v \in SampleValues, ty \in TimestampTypes :
                arg = [NoArg EXCEPT !.timestamp = v, !.timestamp_type = ty]
          /\ pc = "convert_timestamp"
          /\ t = TableCall(NoFile, <<>>, <<>>, NoLimit, NoColumns)
       \/ /\ mode = "export_table_to_csv"
          /\ arg = NoArg
          /\ \E f \in ValidFiles, limit \in Limits, cols \in Overrides :
               \E name \in Range(TableNames(f.tables)) \cup {S_nosuch} :
                  t = TableCall(f, name, OutputPath(f.stem, name), limit, cols)
          /\ pc = "open_read_only"
       \/ /\ mode = "export_folder"
          /\ \E files \in SeqsUpTo(FolderFiles, MaxDbs) \ {<<>>}, tables \in TableFilters :
              \E limit \in (IF tables = {} THEN {NoLimit, MaxLimit} ELSE {NoLimit}) :
                arg = [NoArg EXCEPT !.files = files, !.tables = tables, !.limit = limit]
          /\ pc = "export_folder"
          /\ t = TableCall(NoFile, <<>>, <<>>, NoLimit, NoColumns)

(***************************************************************************)
(* convert_timestamp called by itself.                                     *)
(***************************************************************************)
ConvertTimestamp ==
    /\ pc = "convert_timestamp"
    /\ conv' = convert_timestamp(arg.timestamp, arg.timestamp_type)
    /\ pc' = "done"
    /\ UNCHANGED <<mode, arg, stats, log, out, tempdirs, conns, fi, d, t, h>>

(***************************************************************************)
(* export_table_to_csv, lines 190-295.                                     *)
(***************************************************************************)
TableFrame == <<mode, arg, conv, fi, d>>

\* a connection that is always one to the original file
ConnectionToOriginal(target, via) == [target |-> "original", via |-> via]

Connection(target, via) == [target |-> target, via |-> via]

\* a step of the open ladder that was attempted, and the exception it ended in
Step(name, exc) == [step |-> name, exc |-> exc]

\* lines 197-200: ReadOnlyURI
OpenReadOnly ==
    /\ pc = "open_read_only"
    /\ \E o \in ConnectOutcomes(t.db, "ro") :
         IF o = NoExc
         THEN /\ t' = [t EXCEPT !.conn = Connection("original", "ro"),
                                !.steps = Append(@, Step("ReadOnlyURI", o))]
              /\ conns' = conns + 1
              /\ h' = [h EXCEPT !.d_opened = @ + 1]
              /\ pc' = "probe"
         ELSE IF o.type \in {"OperationalError", "ValueError"}
         THEN /\ t' = [t EXCEPT !.steps = Append(@, Step("ReadOnlyURI", o))]
              /\ pc' = "open_direct"
              /\ UNCHANGED <<conns, h>>
         ELSE /\ t' = [t EXCEPT !.exc = o, !.steps = Append(@, Step("ReadOnlyURI", o))]
              /\ pc' = "except"
              /\ UNCHANGED <<conns, h>>
    /\ UNCHANGED <<TableFrame, stats, log, out, tempdirs>>

\* lines 202-207 and 214-215: DirectOpen
OpenDirect ==
    /\ pc = "open_direct"
    /\ \E o \in ConnectOutcomes(t.db, "direct") :
         IF o = NoExc
         THEN /\ t' = [t EXCEPT !.conn = Connection("original", "direct"),
                                !.steps = Append(@, Step("DirectOpen", o))]
              /\ conns' = conns + 1
              /\ h' = [h EXCEPT !.d_opened = @ + 1]
              /\ pc' = "probe"
              /\ UNCHANGED log
         ELSE IF o.type = "OperationalError" /\ MentionsLocked(o)
         THEN /\ t' = [t EXCEPT !.e = o, !.steps = Append(@, Step("DirectOpen", o))]
              /\ log' = [log EXCEPT !.info = @ + 1]
              /\ pc' = "mkdtemp"
              /\ UNCHANGED <<conns, h>>
         ELSE /\ t' = [t EXCEPT !.exc = o, !.steps = Append(@, Step("DirectOpen", o))]
              /\ pc' = "except"
              /\ UNCHANGED <<conns, h, log>>
    /\ UNCHANGED <<TableFrame, stats, out, tempdirs>>

\* a directory name no directory on disk has
FreshDir == 1 + Cardinality(tempdirs)

\* copy_locked_database, line 95, and lines 99-101, 212-213 when mkdtemp fails
MakeTempDir ==
    /\ pc = "mkdtemp"
    /\ IF t.db.env = "locked_notmp"
       THEN /\ log' = [log EXCEPT !.error = @ + 1]
            /\ t' = [t EXCEPT !.exc = t.e, !.steps = Append(@, Step("PrivateCopy", CopyError))]
            /\ pc' = "except"
            /\ UNCHANGED tempdirs
       ELSE /\ tempdirs' = tempdirs \cup {FreshDir}
            /\ t' = [t EXCEPT !.made = FreshDir,
                              !.steps = Append(@, Step("PrivateCopy", NoExc))]
            /\ pc' = "copy"
            /\ UNCHANGED log
    /\ UNCHANGED <<TableFrame, stats, out, conns, h>>

\* copy_locked_database, lines 96-101, and lines 208-213
CopyDatabase ==
    /\ pc = "copy"
    /\ IF t.db.env = "locked_nocopy"
       THEN /\ log' = [log EXCEPT !.error = @ + 1]
            /\ t' = [t EXCEPT !.exc = t.e, !.steps[Len(t.steps)].exc = CopyError]
            /\ pc' = "except"
       ELSE /\ t' = [t EXCEPT !.temp_db_path = TRUE, !.temp_dir = t.made]
            /\ pc' = "open_copy"
            /\ UNCHANGED log
    /\ UNCHANGED <<TableFrame, stats, out, tempdirs, conns, h>>

\* lines 210-211: the copy is a file of its own, nobody holds a lock on it
OpenCopy ==
    /\ pc = "open_copy"
    /\ t' = [t EXCEPT !.conn = Connection("copy", "direct")]
    /\ conns' = conns + 1
    /\ h' = [h EXCEPT !.d_opened = @ + 1]
    /\ pc' = "probe"
    /\ UNCHANGED <<TableFrame, stats, log, out, tempdirs>>

\* lines 217-233: the timestamp candidates, the column list, the header
Probe ==
    /\ pc = "probe"
    /\ LET info == TableInfo(t.db, t.conn, t.table_name)
           timestamp_columns ==
               IF t.timestamp_columns.given THEN t.timestamp_columns.cols
               ELSE detect_timestamp_columns(info)
           e == StatementOutcome(t.db, t.conn, t.table_name, SqlError)
           original_columns == TableNamed(t.db.tables, t.table_name).columns
       IN  /\ log' = IF ~t.timestamp_columns.given /\ info.exc # "none"
                     THEN [log EXCEPT !.warning = @ + 1] ELSE log
           /\ IF e # NoExc
              THEN /\ t' = [t EXCEPT !.timestamp_columns.cols = timestamp_columns,
                                     !.probed = TRUE, !.exc = e]
                   /\ pc' = "except"
              ELSE /\ t' = [t EXCEPT !.timestamp_columns.cols = timestamp_columns,
                                     !.probed = TRUE,
                                     !.original_columns = original_columns,
                                     !.all_columns = original_columns
                                        \o ExtraColumns(timestamp_columns, original_columns)]
                   /\ pc' = "query"
    /\ UNCHANGED <<TableFrame, stats, out, tempdirs, conns, h>>

\* a row query issued after the output file was opened for writing
RowQueryFileFirst ==
    /\ pc = "query"
    /\ out' = (t.output_path :> [header |-> <<>>, rows |-> <<>>]) @@ out
    /\ LET e == QueryOutcome(t.db, t.conn, t.table_name)
       IN  IF e # NoExc
           THEN /\ t' = [t EXCEPT !.exc = e]
                /\ pc' = "except"
           ELSE /\ t' = [t EXCEPT !.queried = TRUE, !.cursor =
                             QueryRows(TableNamed(t.db.tables, t.table_name).rows, t.limit)]
                /\ pc' = "write_header"
    /\ UNCHANGED <<TableFrame, stats, log, tempdirs, conns, h>>

\* lines 235-240: the row query
RowQuery ==
    /\ pc = "query"
    /\ LET e == QueryOutcome(t.db, t.conn, t.table_name)
       IN  IF e # NoExc
           THEN /\ t' = [t EXCEPT !.exc = e]
                /\ pc' = "except"
           ELSE /\ t' = [t EXCEPT !.queried = TRUE, !.cursor =
                             QueryRows(TableNamed(t.db.tables, t.table_name).rows, t.limit)]
                /\ pc' = "write_header"
    /\ UNCHANGED <<TableFrame, stats, log, out, tempdirs, conns, h>>

\* lines 243-249: open(output_path, 'w') and the header
WriteHeader ==
    /\ pc = "write_header"
    /\ out' = (t.output_path :> [header |-> t.all_columns, rows |-> <<>>]) @@ out
    /\ t' = [t EXCEPT !.rows_processed = 0]
    /\ pc' = "fetch"
    /\ UNCHANGED <<TableFrame, stats, log, tempdirs, conns, h>>

\* the end of one turn of the while loop, r what the for loop gave
AfterBatch(r, rest) ==
    /\ out' = [out EXCEPT ![t.output_path].rows = r.written]
    /\ IF r.exc # "none"
       THEN /\ t' = [t EXCEPT !.rows_processed = r.rows_processed, !.cursor = rest,
                              !.exc = [type |-> r.exc, msg |-> "date value out of range"]]
            /\ pc' = "except"
       ELSE /\ t' = [t EXCEPT !.rows_processed = r.rows_processed, !.cursor = rest]
            /\ pc' = IF LimitReached(t.limit, r.rows_processed) THEN "exported" ELSE "fetch"

\* the rows fetchmany gave, line 252, and the rest of the turn
Batch(rows) ==
    IF rows = <<>>
    THEN /\ pc' = "exported"
         /\ UNCHANGED <<t, out>>
    ELSE AfterBatch(ProcessRows(rows, out[t.output_path].rows, t.rows_processed,
                                t.limit, t.timestamp_columns.cols, t.original_columns),
                    SubSeq(t.cursor, Len(rows) + 1, Len(t.cursor)))

\* lines 251-277: one turn of the while loop
FetchBatch ==
    /\ pc = "fetch"
    /\ Batch(SubSeq(t.cursor, 1, Min(chunk_size, Len(t.cursor))))
    /\ UNCHANGED <<TableFrame, stats, log, tempdirs, conns, h>>

\* lines 279-281
Exported ==
    /\ pc = "exported"
    /\ log' = [log EXCEPT !.info = @ + 1]
    /\ stats' = [stats EXCEPT !.tables_exported = @ + 1]
    /\ t' = [t EXCEPT !.ret = [success |-> TRUE, row_count |-> t.rows_processed]]
    /\ h' = [h EXCEPT !.written = Append(@, Export(t.db, t.table_name, t.output_path))]
    /\ pc' = "close"
    /\ UNCHANGED <<TableFrame, out, tempdirs, conns>>

\* a handler that logs the failure of the table and does not count it
ExceptUncounted ==
    /\ pc = "except"
    /\ log' = [log EXCEPT !.error = @ + 1]
    /\ t' = [t EXCEPT !.ret = [success |-> FALSE, row_count |-> 0]]
    /\ pc' = "close"
    /\ UNCHANGED <<TableFrame, stats, out, tempdirs, conns, h>>

\* lines 283-286
Except ==
    /\ pc = "except"
    /\ log' = [log EXCEPT !.error = @ + 1]
    /\ stats' = [stats EXCEPT !.errors = @ + 1]
    /\ t' = [t EXCEPT !.ret = [success |-> FALSE, row_count |-> 0]]
    /\ pc' = "close"
    /\ UNCHANGED <<TableFrame, out, tempdirs, conns, h>>

\* lines 288-290
Close ==
    /\ pc = "close"
    /\ IF t.conn # NoConn
       THEN /\ conns' = conns - 1
            /\ t' = [t EXCEPT !.conn = [@ EXCEPT !.via = "closed"]]
       ELSE UNCHANGED <<conns, t>>
    /\ pc' = "rmtree"
    /\ UNCHANGED <<TableFrame, stats, log, out, tempdirs, h>>

\* a removal whose failure fails the export
RemoveTempDirFatal ==
    /\ pc = "rmtree"
    /\ IF t.temp_dir # 0 /\ t.temp_dir \in tempdirs
       THEN \E removed \in BOOLEAN :
              /\ tempdirs' = IF removed THEN tempdirs \ {t.temp_dir} ELSE tempdirs
              /\ log' = IF removed THEN log ELSE [log EXCEPT !.error = @ + 1]
              /\ stats' = IF removed THEN stats ELSE [stats EXCEPT !.errors = @ + 1]
              /\ t' = IF removed THEN t
                      ELSE [t EXCEPT !.ret = [success |-> FALSE, row_count |-> 0]]
       ELSE UNCHANGED <<tempdirs, log, stats, t>>
    /\ pc' = IF t.exc = KeyboardInterrupt THEN "interrupted" ELSE "return"
    /\ UNCHANGED <<TableFrame, out, conns, h>>

\* the statements of the try block of export_table_to_csv and of its handler,
\* lines 195-286, copy_locked_database included
TryBlock ==
    {"open_read_only", "open_direct", "mkdtemp", "copy", "open_copy", "probe", "query",
     "write_header", "fetch", "exported", "except"}

\* an interrupt signal while the try block runs: the statement the run is at raises
\* KeyboardInterrupt, which no except clause names (lines 99, 200, 205, 283 name
\* subclasses of Exception), and the finally block runs
Interrupt ==
    /\ pc \in TryBlock
    /\ t' = [t EXCEPT !.exc = KeyboardInterrupt]
    /\ pc' = "close"
    /\ UNCHANGED <<TableFrame, stats, log, out, tempdirs, conns, h>>

\* lines 291-295, and where the call goes from the finally block: to its return,
\* or, with the KeyboardInterrupt, out of export_database and export_folder
\* (line 343 names Exception) to the handler of main, line 464
\* shutil.rmtree may fail (a file of the directory is in use, or not removable);
\* the handler at lines 294-295 logs a warning
RemoveTempDir ==
    /\ pc = "rmtree"
    /\ IF t.temp_dir # 0 /\ t.temp_dir \in tempdirs
       THEN \E removed \in BOOLEAN :
              /\ tempdirs' = IF removed THEN tempdirs \ {t.temp_dir} ELSE tempdirs
              /\ log' = IF removed THEN log ELSE [log EXCEPT !.warning = @ + 1]
       ELSE UNCHANGED <<tempdirs, log>>
    /\ pc' = IF t.exc = KeyboardInterrupt THEN "interrupted" ELSE "return"
    /\ UNCHANGED <<TableFrame, stats, out, conns, t, h>>

\* a return that lets the failure of a table out of export_table_to_csv
ReturnOrRaise ==
    /\ pc = "return"
    /\ IF mode = "export_table_to_csv"
       THEN /\ pc' = "done"
            /\ UNCHANGED <<log, d>>
       ELSE IF t.ret.success
       THEN /\ log' = [log EXCEPT !.info = @ + 1]
            /\ d' = [d EXCEPT !.k = @ + 1]
            /\ pc' = "table_loop"
       ELSE /\ d' = [d EXCEPT !.exc = t.exc]
            /\ pc' = "database_except"
            /\ UNCHANGED log
    /\ UNCHANGED <<mode, arg, conv, fi, stats, out, tempdirs, conns, t, h>>

\* the return of export_table_to_csv, and lines 332-339 in export_database
Return ==
    /\ pc = "return"
    /\ IF mode = "export_table_to_csv"
       THEN /\ pc' = "done"
            /\ UNCHANGED <<log, d>>
       ELSE /\ log' = IF t.ret.success THEN [log EXCEPT !.info = @ + 1]
                      ELSE [log EXCEPT !.error = @ + 1]
            /\ d' = [d EXCEPT !.k = @ + 1]
            /\ pc' = "table_loop"
    /\ UNCHANGED <<mode, arg, conv, fi, stats, out, tempdirs, conns, t, h>>

(***************************************************************************)
(* export_database, lines 297-347, and export_folder, lines 381-393.  The  *)
(* files find_sqlite_files returns are arg.files.                          *)
(***************************************************************************)
DatabaseFrame == <<mode, arg, conv, tempdirs, out, t>>

\* lines 392-393: the next file, or the end of the run
ExportFolder ==
    /\ pc = "export_folder"
    /\ IF fi < Len(arg.files)
       THEN /\ fi' = fi + 1
            /\ d' = DatabaseCall(arg.files[fi + 1])
            /\ h' = [h EXCEPT !.d_stats = stats, !.d_out = out, !.d_log = log, !.d_opened = 0,
                              !.attempted = <<>>, !.outcome = "none", !.enumerated = FALSE]
            /\ pc' = "validate"
       ELSE /\ pc' = "done"
            /\ UNCHANGED <<fi, d, h>>
    /\ UNCHANGED <<DatabaseFrame, stats, log, conns>>

\* lines 299-305
Validate ==
    /\ pc = "validate"
    /\ IF ~is_valid_sqlite_database(d.db)
       THEN /\ log' = [log EXCEPT !.warning = @ + 1]
            /\ stats' = [stats EXCEPT !.files_skipped = @ + 1]
            /\ h' = [h EXCEPT !.outcome = "skipped"]
            /\ pc' = "database_return"
       ELSE /\ pc' = "connect"
            /\ UNCHANGED <<log, stats, h>>
    /\ UNCHANGED <<DatabaseFrame, conns, fi, d>>

\* line 309
Connect ==
    /\ pc = "connect"
    /\ \E o \in ConnectOutcomes(d.db, "ro") :
         IF o = NoExc
         THEN /\ d' = [d EXCEPT !.conn = Connection("original", "ro")]
              /\ conns' = conns + 1
              /\ h' = [h EXCEPT !.d_opened = @ + 1]
              /\ pc' = "table_list"
         ELSE /\ d' = [d EXCEPT !.exc = o]
              /\ pc' = "database_except"
              /\ UNCHANGED <<conns, h>>
    /\ UNCHANGED <<DatabaseFrame, stats, log, fi>>

\* an enumeration that leaves its connection open
TableListLeftOpen ==
    /\ pc = "table_list"
    /\ d' = [d EXCEPT !.all_tables = get_table_list(d.db, d.conn)]
    /\ log' = IF MasterOutcome(d.db, d.conn) # NoExc THEN [log EXCEPT !.error = @ + 1] ELSE log
    /\ h' = [h EXCEPT !.enumerated = MasterOutcome(d.db, d.conn) = NoExc]
    /\ pc' = "resolve"
    /\ UNCHANGED <<DatabaseFrame, stats, fi, conns>>

\* lines 310-311
TableList ==
    /\ pc = "table_list"
    /\ d' = [d EXCEPT !.all_tables = get_table_list(d.db, d.conn),
                      !.conn = [@ EXCEPT !.via = "closed"]]
    /\ log' = IF MasterOutcome(d.db, d.conn) # NoExc THEN [log EXCEPT !.error = @ + 1] ELSE log
    /\ h' = [h EXCEPT !.enumerated = MasterOutcome(d.db, d.conn) = NoExc]
    /\ conns' = conns - 1
    /\ pc' = "resolve"
    /\ UNCHANGED <<DatabaseFrame, stats, fi>>

\* lines 313-320
Resolve ==
    /\ pc = "resolve"
    /\ IF arg.tables # {}
       THEN LET tables_to_export == Filter(d.all_tables, arg.tables)
            IN  /\ d' = [d EXCEPT !.tables_to_export = tables_to_export]
                /\ IF tables_to_export = <<>>
                   THEN /\ log' = [log EXCEPT !.warning = @ + 1]
                        /\ h' = [h EXCEPT !.outcome = "no_match"]
                        /\ pc' = "database_return"
                   ELSE /\ pc' = "table_loop"
                        /\ UNCHANGED <<log, h>>
       ELSE /\ d' = [d EXCEPT !.tables_to_export = d.all_tables]
            /\ pc' = "table_loop"
            /\ UNCHANGED <<log, h>>
    /\ UNCHANGED <<DatabaseFrame, stats, conns, fi>>

\* lines 322-330 for the next table, line 341 after the last
TableLoop ==
    /\ pc = "table_loop"
    /\ IF d.k < Len(d.tables_to_export)
       THEN LET table_name == d.tables_to_export[d.k + 1]
            IN  /\ t' = TableCall(d.db, table_name, OutputPath(d.db.stem, table_name),
                                  arg.limit, NoColumns)
                /\ h' = [TableEntry(h) EXCEPT !.attempted = Append(@, table_name)]
                /\ pc' = "open_read_only"
                /\ UNCHANGED stats
       ELSE /\ stats' = [stats EXCEPT !.databases_processed = @ + 1]
            /\ h' = [h EXCEPT !.outcome = "processed"]
            /\ pc' = "database_return"
            /\ UNCHANGED t
    /\ UNCHANGED <<mode, arg, conv, tempdirs, out, log, conns, fi, d>>

\* lines 343-347
DatabaseExcept ==
    /\ pc = "database_except"
    /\ log' = [log EXCEPT !.error = @ + 1]
    /\ stats' = [stats EXCEPT !.errors = @ + 1]
    /\ h' = [h EXCEPT !.outcome = "error"]
    /\ pc' = "database_return"
    /\ UNCHANGED <<DatabaseFrame, conns, fi, d>>

\* export_database returns to the loop of export_folder
DatabaseReturn ==
    /\ pc = "database_return"
    /\ pc' = "export_folder"
    /\ UNCHANGED <<DatabaseFrame, stats, log, conns, fi, d, h>>

Next ==
    \/ ConvertTimestamp
    \/ OpenReadOnly \/ OpenDirect \/ MakeTempDir \/ CopyDatabase \/ OpenCopy
    \/ Probe \/ RowQuery \/ WriteHeader \/ FetchBatch \/ Exported \/ Except
    \/ Close \/ RemoveTempDir \/ Return \/ Interrupt
    \/ ExportFolder \/ Validate \/ Connect \/ TableList \/ Resolve \/ TableLoop
    \/ DatabaseExcept \/ DatabaseReturn

Spec == Init /\ [][Next]_vars

(***************************************************************************)
(* The claims.                                                             *)
(***************************************************************************)
\* export_table_to_csv has run its finally block and returns
TableReturns == pc = "return"
\* export_database returns
DatabaseReturns == pc = "database_return"

TheTable == TableNamed(t.db.tables, t.table_name)

\* C1: when export_table_to_csv returns, on success or on any failure, no
\* temporary directory that the call created is left on disk.
C1_NoTempDirLeft == TableReturns => tempdirs \subseteq h.t_tempdirs

\* C2: a valid database that stays locked during the whole call of export_database
\* (all tables asked for, no row limit) is exported completely: the call ends as a
\* processed database, with no error, and every table has its file with all its
\* rows.  Stated for the calls whose read-only open succeeded, which is what
\* sqlite3.connect does on a locked file.
C2_LockedDatabaseExported ==
    (DatabaseReturns /\ is_valid_sqlite_database(d.db) /\ d.db.env = "locked"
        /\ arg.tables = {} /\ arg.limit = NoLimit /\ h.d_opened > 0)
    => /\ h.outcome = "processed"
       /\ stats.errors = h.d_stats.errors
       /\ \A i \in DOMAIN d.db.tables :
            LET path == OutputPath(d.db.stem, d.db.tables[i].name)
            IN  /\ path \in DOMAIN out
                /\ Len(out[path].rows) = Len(d.db.tables[i].rows)

\* the tag the claim gives a number
ClaimedTag(n) ==
    IF Less(T1e18, n) THEN "webkit"
    ELSE IF Less(T1e10, n) THEN "unix_ms"
    ELSE IF Less(T1e9, n) THEN "unix"
    ELSE IF Less(T1e8, n) THEN "cocoa"
    ELSE "unknown"

ConvertReturned == mode = "convert_timestamp" /\ pc = "done"

\* C3: in auto mode convert_timestamp returns, for every number v, the tag its
\* magnitude fixes: webkit above 1e18, unix_ms above 1e10, unix above 1e9, cocoa
\* above 1e8, and (None, unknown) up to 1e8.
C3_AutoTagByMagnitude ==
    (ConvertReturned /\ arg.timestamp_type = "auto" /\ arg.timestamp.k = "int")
    => /\ conv.exc = "none"
       /\ conv.ts_type = ClaimedTag(arg.timestamp.n)
       /\ ClaimedTag(arg.timestamp.n) = "unknown" => conv.converted = NoneVal

\* C4: convert_timestamp raises for no input and no mode, and no table export
\* ends in an exception that the classification of a cell raised.
C4_ConvertNeverRaises ==
    /\ ConvertReturned => conv.exc = "none"
    /\ pc = "except" => t.exc.type # "OverflowError"

\* the candidates that are columns of the table
Candidates == Filter(t.timestamp_columns.cols, Range(t.original_columns))

\* C5: a table exported with K timestamp candidates, detected or given by the
\* caller, has a header of (original columns + 2K) fields, and every row written
\* has as many fields as the header.  K counts the candidates that are columns of
\* the table, the reading under which the header is as claimed.
C5_RowShape ==
    (TableReturns /\ t.ret.success)
    => /\ Len(out[t.output_path].header) = Len(t.original_columns) + (2 * Len(Candidates))
       /\ \A i \in DOMAIN out[t.output_path].rows :
              Len(out[t.output_path].rows[i]) = Len(out[t.output_path].header)

\* the rows a table export is to write: min(L, N) under a limit L, else N
RowsDue == IF t.limit # NoLimit THEN Min(t.limit, Len(TheTable.rows)) ELSE Len(TheTable.rows)

\* C6: a successful export_table_to_csv of a table of N rows under a positive limit
\* L leaves one header and the first min(L, N) rows of the table, in query order,
\* and returns min(L, N); without a limit it writes and returns N.  No batch is
\* fetched, and no row written, once L rows are written.
C6_RowLimit ==
    /\ (TableReturns /\ t.ret.success)
       => /\ t.ret.row_count = RowsDue
          /\ out[t.output_path].header = t.all_columns
          /\ Len(out[t.output_path].rows) = RowsDue
          /\ \A i \in 1 .. RowsDue :
                SubSeq(out[t.output_path].rows[i], 1, Len(t.original_columns)) = TheTable.rows[i]
    /\ (pc = "fetch" /\ t.limit # NoLimit)
       => /\ t.rows_processed < t.limit
          /\ Len(out[t.output_path].rows) = t.rows_processed
    /\ (pc = "exported" /\ t.limit # NoLimit) => Len(out[t.output_path].rows) <= t.limit

\* a limit below the number of rows, reached inside a batch
C6_Witness ==
    /\ TableReturns /\ t.ret.success
    /\ t.limit # NoLimit /\ t.limit < Len(TheTable.rows) /\ t.limit % chunk_size # 0
    /\ t.ret.row_count = t.limit

\* C7: export_database attempts every table of the resolved set once, in the order
\* of the enumeration, whatever became of the tables before it: a table that fails
\* counts one error and the loop goes on.
C7_EveryTableAttempted ==
    /\ mode = "export_folder"
       => h.attempted = SubSeq(d.tables_to_export, 1, Len(h.attempted))
    /\ (DatabaseReturns /\ d.tables_to_export # <<>>) => h.attempted = d.tables_to_export
    /\ (TableReturns /\ ~t.ret.success) => stats.errors = h.t_stats.errors + 1

\* a database whose first tables failed and whose last table was exported
C7_Witness ==
    /\ DatabaseReturns
    /\ Len(h.attempted) >= 3 /\ h.attempted = d.tables_to_export
    /\ stats.errors >= h.d_stats.errors + 2
    /\ t.table_name = d.tables_to_export[Len(d.tables_to_export)] /\ t.ret.success

\* what the claim calls a path that fails the validity check
FailsValidity(f) == ~f.isfile \/ f.size < 16 \/ f.header # Magic

\* C8: for a path that is not a regular file, is shorter than 16 bytes or does not
\* start with the magic bytes, export_database adds one to files_skipped and
\* changes nothing else: the other counters and the output files are as before
\* and no connection was opened.
C8_InvalidFileSkipped ==
    (DatabaseReturns /\ FailsValidity(d.db))
    => /\ stats = [h.d_stats EXCEPT !.files_skipped = @ + 1]
       /\ out = h.d_out
       /\ h.d_opened = 0 /\ conns = 0
       /\ h.attempted = <<>>

\* a 15-byte file skipped after an earlier database was exported
C8_Witness ==
    /\ DatabaseReturns /\ d.db.size = 15 /\ fi = 2
    /\ stats.files_skipped = 1 /\ stats.tables_exported > 0

\* C9: with a table filter none of whose names is a table of the valid, readable
\* database, export_database exports no table, logs a warning, leaves errors and
\* tables_exported as they were and creates no output file.
C9_NoMatchingTable ==
    (DatabaseReturns /\ is_valid_sqlite_database(d.db) /\ h.enumerated
        /\ arg.tables # {} /\ \A name \in arg.tables : ~HasTable(d.db.tables, name))
    => /\ h.attempted = <<>>
       /\ log.warning = h.d_log.warning + 1
       /\ stats.errors = h.d_stats.errors
       /\ stats.tables_exported = h.d_stats.tables_exported
       /\ out = h.d_out

\* a database with tables, none of them in the filter
C9_Witness ==
    /\ DatabaseReturns /\ h.outcome = "no_match"
    /\ d.all_tables # <<>> /\ arg.tables = {S_nosuch}

\* C10: when no readable handle is obtained for a valid database (the open or the
\* enumeration of its tables fails), export_database counts one error and does
\* not count the database as processed.
C10_AccessErrorRecorded ==
    (DatabaseReturns /\ is_valid_sqlite_database(d.db) /\ ~h.enumerated)
    => /\ stats.errors = h.d_stats.errors + 1
       /\ stats.databases_processed = h.d_stats.databases_processed

\* C11: after a run over any set of databases, every exported (database, table)
\* pair has an output file of its own: no two distinct pairs were written to the
\* same path.
C11_OwnOutputFile ==
    pc = "done"
    => \A i, j \in DOMAIN h.written :
           (h.written[i].db # h.written[j].db \/ h.written[i].table # h.written[j].table)
           => h.written[i].path # h.written[j].path

\* C12: an interrupt signal arriving at any point of a table export, the copy of
\* the locked database included, leaves no temporary directory behind: when the
\* interrupt has left export_table_to_csv, the directories on disk are those that
\* were there when the call started.
C12_InterruptLeavesNoTempDir ==
    pc = "interrupted" => tempdirs = h.t_tempdirs

\* what auto mode gives for the negative of the number the run converted
OfNegative == convert_timestamp(IntCell(Negate(arg.timestamp.n)), "auto")

\* C13: auto mode classifies the absolute value: for every number v,
\* convert_timestamp(-v, auto) returns the tag convert_timestamp(v, auto) returns.
C13_SameTagForNegative ==
    (ConvertReturned /\ arg.timestamp_type = "auto" /\ arg.timestamp.k = "int"
        /\ conv.exc = "none")
    => /\ OfNegative.exc = "none"
       /\ OfNegative.ts_type = conv.ts_type

ManualModes == {"webkit", "unix", "unix_ms", "cocoa"}

\* the epoch and the unit a mode names
Convention(m) ==
    CASE m = "webkit" -> [epoch |-> "1601-01-01", unit |-> "microseconds"]
      [] m = "unix" -> [epoch |-> "1970-01-01", unit |-> "seconds"]
      [] m = "unix_ms" -> [epoch |-> "1970-01-01", unit |-> "milliseconds"]
      [] m = "cocoa" -> [epoch |-> "2001-01-01", unit |-> "seconds"]

\* the run converted a number in a manual mode
ManualReturned ==
    ConvertReturned /\ arg.timestamp_type \in ManualModes /\ arg.timestamp.k = "int"

\* the date the mode gives for the number lies within the years 1 to 9999
Representable ==
    InRange(Convention(arg.timestamp_type).epoch, Convention(arg.timestamp_type).unit,
            Float(arg.timestamp).v.n)

Detected == t.probed /\ ~t.timestamp_columns.given

\* IsSubsequence(s, of): s holds elements of the sequence of, each once, in its order
IsSubsequence(s, of) ==
    /\ \A i \in DOMAIN s : s[i] \in Range(of)
    /\ \A i, j \in DOMAIN s : i < j => IndexOf(of, s[i]) < IndexOf(of, s[j])

\* C15: detect_timestamp_columns returns exactly the columns whose lowercased name
\* contains one of the keywords, in the order of the table's columns, and returns
\* the empty list when the column metadata cannot be read.
C15_DetectedColumns ==
    Detected
    => IF TableInfo(t.db, t.conn, t.table_name).exc # "none"
       THEN t.timestamp_columns.cols = <<>>
       ELSE /\ IsSubsequence(t.timestamp_columns.cols,
                             TableInfo(t.db, t.conn, t.table_name).v)
            /\ \A c \in Range(TableInfo(t.db, t.conn, t.table_name).v) :
                   c \in Range(t.timestamp_columns.cols) <=> IsTimestampName(c)

\* log(stamp, id, created_at): stamp and created_at are found, in that order
C15_Witness ==
    /\ Detected
    /\ t.table_name = S_log
    /\ t.original_columns = <<S_stamp, S_id, S_created_at>>
    /\ t.timestamp_columns.cols = <<S_stamp, S_created_at>>

\* the steps of the open ladder, in the order of lines 196-215
Ladder == <<"ReadOnlyURI", "DirectOpen", "PrivateCopy">>

\* the connection each step gives when it succeeds
ConnectionOf(step) ==
    CASE step = "ReadOnlyURI" -> [target |-> "original", via |-> "ro"]
      [] step = "DirectOpen" -> [target |-> "original", via |-> "direct"]
      [] step = "PrivateCopy" -> [target |-> "copy", via |-> "direct"]

\* C16: in the open ladder DirectOpen is attempted only after ReadOnlyURI failed,
\* PrivateCopy only after DirectOpen failed with a message that says the file is
\* locked; after a step that succeeded no step is attempted, and the export uses
\* the connection of the first step that succeeded.
C16_LadderOrder ==
    /\ Len(t.steps) <= 3
    /\ \A i \in DOMAIN t.steps : t.steps[i].step = Ladder[i]
    /\ Len(t.steps) >= 2 => t.steps[1].exc # NoExc
    /\ Len(t.steps) >= 3 => t.steps[2].exc = LockedError
    /\ pc = "probe"
       => /\ t.steps # <<>>
          /\ t.steps[Len(t.steps)].exc = NoExc
          /\ t.conn = ConnectionOf(t.steps[Len(t.steps)].step)

\* a locked file went down the whole ladder and is read through its copy
C16_Witness ==
    /\ pc = "probe"
    /\ t.steps = <<Step("ReadOnlyURI", LockedError), Step("DirectOpen", LockedError),
                   Step("PrivateCopy", NoExc)>>
    /\ t.conn = [target |-> "copy", via |-> "direct"]

\* step i of the ladder failed, and not because the file is locked
OtherFailure(i) == Len(t.steps) >= i /\ t.steps[i].exc \notin {NoExc, LockedError}

\* C17 as stated: a failure that is not a lock failure, at any step of the open
\* ladder, ReadOnlyURI included, ends the acquisition: no later step is attempted.
C17_OtherFailureEndsLadder ==
    \A i \in 1 .. 3 : OtherFailure(i) => Len(t.steps) = i

\* C17, amended: a failure of DirectOpen that is not a lock failure ends the
\* acquisition, PrivateCopy is not attempted and the export fails; a failure of
\* ReadOnlyURI, a lock failure or not, is followed by DirectOpen.
C17_OtherFailureOfDirectOpen ==
    /\ OtherFailure(2)
       => /\ Len(t.steps) = 2
          /\ t.conn = NoConn
          /\ t.made = 0
          /\ pc \notin {"mkdtemp", "copy", "open_copy", "probe", "query", "write_header",
                        "fetch", "exported"}
          /\ pc = "return" => ~t.ret.success
    /\ (OtherFailure(1) /\ Len(t.steps) = 1) => pc \in {"open_direct", "close", "rmtree", "interrupted"}
    /\ (OtherFailure(1) /\ Len(t.steps) = 1 /\ pc # "open_direct") => t.exc = KeyboardInterrupt

\* a file that cannot be opened at all: both opens failed, no copy was tried
C17_Witness ==
    /\ pc = "return"
    /\ t.steps = <<Step("ReadOnlyURI", OpenError), Step("DirectOpen", OpenError)>>
    /\ ~t.ret.success
    /\ tempdirs = h.t_tempdirs

\* what the statistics gained since export_database was entered
Gained(field) == stats[field] - h.d_stats[field]

\* C18: a call of export_database whose table loop ran to its end counts the
\* database once, whatever became of its tables, and leaves files_skipped alone;
\* every table it attempted counts once, in tables_exported when it succeeded and
\* in errors when it failed.
C18_StatsPerDatabase ==
    /\ (DatabaseReturns /\ h.outcome = "processed")
       => /\ Gained("databases_processed") = 1
          /\ Gained("files_skipped") = 0
          /\ Gained("tables_exported") + Gained("errors") = Len(h.attempted)
    /\ (TableReturns /\ mode = "export_folder")
       => /\ stats.databases_processed = h.t_stats.databases_processed
          /\ stats.files_skipped = h.t_stats.files_skipped
          /\ stats.tables_exported = h.t_stats.tables_exported + (IF t.ret.success THEN 1 ELSE 0)
          /\ stats.errors = h.t_stats.errors + (IF t.ret.success THEN 0 ELSE 1)

\* a database of three tables, one exported and two failed
C18_Witness ==
    /\ DatabaseReturns
    /\ h.outcome = "processed"
    /\ Len(h.attempted) = 3
    /\ Gained("tables_exported") = 1
    /\ Gained("errors") = 2
    /\ Gained("databases_processed") = 1

\* C19: at the end of export_table_to_csv the connection is closed before the
\* temporary directory is removed, and a removal that fails is only logged: the
\* success flag, the row count and the statistics stay as they were, and the call
\* returns.
C19_ReleaseOrder ==
    /\ [](pc = "rmtree" => (conns = 0 /\ (t.conn # NoConn => t.conn.via = "closed")))
    /\ [][pc = "rmtree"
            => /\ t'.ret = t.ret
               /\ stats' = stats
               /\ pc' \in {"return", "interrupted"}
               /\ (t.exc # KeyboardInterrupt => pc' = "return")
               /\ (tempdirs' = tempdirs /\ t.temp_dir \in tempdirs)
                     => log' = [log EXCEPT !.warning = @ + 1]]_vars

\* the copy was exported, its connection closed, and the directory could not be
\* removed: the call returns its success
C19_Witness ==
    /\ pc = "return"
    /\ t.temp_dir # 0 /\ t.temp_dir \in tempdirs
    /\ t.conn = [target |-> "copy", via |-> "closed"]
    /\ t.ret.success
    /\ stats.tables_exported = h.t_stats.tables_exported + 1
    /\ stats.errors = h.t_stats.errors

\* the statements at which a connection of the running call is open: between the
\* connect and the close of export_database, and from the open ladder to the
\* finally block of export_table_to_csv
WhileConnected ==
    {"table_list", "probe", "query", "write_header", "fetch", "exported", "except", "close"}

\* C20: every connection export_database or export_table_to_csv opened is closed
\* before the call returns, on the success path and on every exception path: at
\* most one connection is open at any time, and none between two table exports or
\* after export_database returned.
C20_ConnectionsClosed ==
    /\ conns \in {0, 1}
    /\ pc \notin WhileConnected => conns = 0
    /\ pc \in {"resolve", "table_loop", "return", "database_return", "export_folder", "done"}
       => /\ d.conn # NoConn => d.conn.via = "closed"
          /\ (pc # "resolve" /\ t.conn # NoConn) => t.conn.via = "closed"

\* a table export of export_folder failed after its connection was opened, and
\* the connection is closed when the call returns to the table loop
C20_Witness ==
    /\ mode = "export_folder"
    /\ pc = "return"
    /\ ~t.ret.success
    /\ t.conn = [target |-> "original", via |-> "closed"]
    /\ d.conn = [target |-> "original", via |-> "closed"]
    /\ h.d_opened >= 2
    /\ conns = 0

\* C21: a call of export_table_to_csv that fails before its row query succeeded,
\* with no connection, at the column probe or at the row query, neither creates
\* nor truncates the output file: the files are those the call found, a file an
\* earlier export left at the path included.  The output file is opened only
\* after the row query succeeded.
C21_OutputOnlyAfterQuery ==
    /\ ~t.queried => out = h.t_out
    /\ (TableReturns /\ ~t.ret.success /\ ~t.queried)
       => /\ DOMAIN out = DOMAIN h.t_out
          /\ t.output_path \in DOMAIN out => out[t.output_path] = h.t_out[t.output_path]

\* the row query on a damaged table failed after the column probe succeeded, and
\* the file an earlier export of the run wrote at the same path still has its rows
C21_Witness ==
    /\ TableReturns
    /\ ~t.ret.success
    /\ t.probed /\ ~t.queried
    /\ t.exc = MalformedError
    /\ t.output_path \in DOMAIN out
    /\ out[t.output_path].rows # <<>>
    /\ out = h.t_out

====
